---- MODULE Spec2Model ----
(***************************************************************************)
(* Model of the x-automated-posts scripts: the hourly and weekly BTC chart *)
(* posts, the four performance digests and the hello-world post.  Each     *)
(* script is one run of main(); a run is cut into steps at its external    *)
(* calls (price fetch, chart render, media upload, create_tweet).          *)
(*                                                                         *)
(* Numbers.  Prices are whole dollars.  A percentage is kept exact as a    *)
(* fraction [n, d] with d >= 0; d = 0 stands for the numpy results inf     *)
(* (n > 0), -inf (n < 0) and nan (n = 0).  Time is kept in seconds, the    *)
(* upstream timestamps in milliseconds.                                    *)
(***************************************************************************)
EXTENDS Integers, Sequences, FiniteSets, TLC

VARIABLES runs, chartFile, pct_change_in, marker_out, markers_out,
          df_in, perf_out

\* the variables of the functions that are run on their own
pureVars == <<pct_change_in, marker_out, markers_out, df_in, perf_out>>
vars == <<runs, chartFile, pureVars>>

(***************************************************************************)
(* Bounds of the model                                                     *)
(***************************************************************************)
\* longest upstream payload with arbitrary timestamps (any order, repeats)
MaxLen == 2
\* longest upstream payload delivered in time order (one sample per tick)
MaxLongLen == 7
\* number of tickers of each TICKERS list that the model keeps (a prefix)
NumTickers == 2
\* largest magnitude, in percent, of the classifier inputs of SpecClassify
MaxPct == 22
\* denominator of the classifier inputs of SpecClassify (steps of 1/ClsDen %)
ClsDen == 2
\* cap on the number of create_tweet calls a run may count
MaxCalls == 2
\* most valid rows the downloaded frame holds for one ticker
MaxRows == 2

\* spacing of the upstream samples of the model: 30 minutes, in milliseconds
TickMs == 30 * 60 * 1000
Ticks == 1..3
NowTicks == {3, 4}
Prices == {0, 90, 100, 103, 110, 112, 118}
LongPrices == {100, 112}
DigestCloses == {0, 100, 112}

(***************************************************************************)
(* Optional values                                                         *)
(***************************************************************************)
None == <<>>
Some(x) == <<x>>
Abs(x) == IF x < 0 THEN -x ELSE x

(***************************************************************************)
(* Percentages as exact fractions                                          *)
(***************************************************************************)
Rat(n, d) == [n |-> n, d |-> d]
IsNaN(p) == p.d = 0 /\ p.n = 0
\* p > k and p < k for an integer k (inf, -inf and nan compare as in IEEE)
Gt(p, k) == p.n > k * p.d
Lt(p, k) == p.n < k * p.d
\* p >= 0
GeZero(p) == ~IsNaN(p) /\ p.n >= 0
\* abs(p) < k
AbsLt(p, k) == Abs(p.n) < k * p.d
\* abs(p) > k
AbsGt(p, k) == Abs(p.n) > k * p.d

\* (price_diff / earliest_price) * 100
PctChange(price_diff, earliest_price) == Rat(100 * price_diff, earliest_price)

(***************************************************************************)
(* get_movement_emoji: the markers are named A..K, from the largest rise   *)
(* to the largest fall, F being the flat marker                            *)
(***************************************************************************)
Markers == {"A", "B", "C", "D", "E", "F", "G", "H", "I", "J", "K"}

get_movement_emoji_swapped(pct_change) ==
    IF Gt(pct_change, 20) THEN "A"
    ELSE IF Gt(pct_change, 15) THEN "B"
    ELSE IF Gt(pct_change, 10) THEN "C"
    ELSE IF Gt(pct_change, 5) THEN "D"
    ELSE IF Gt(pct_change, 1) THEN "E"
    ELSE IF Lt(pct_change, -15) THEN "J"
    ELSE IF Lt(pct_change, -20) THEN "K"
    ELSE IF Lt(pct_change, -10) THEN "I"
    ELSE IF Lt(pct_change, -5) THEN "H"
    ELSE IF Lt(pct_change, -1) THEN "G"
    ELSE "F"

get_movement_emoji(pct_change) ==
    IF Gt(pct_change, 20) THEN "A"
    ELSE IF Gt(pct_change, 15) THEN "B"
    ELSE IF Gt(pct_change, 10) THEN "C"
    ELSE IF Gt(pct_change, 5) THEN "D"
    ELSE IF Gt(pct_change, 1) THEN "E"
    ELSE IF Lt(pct_change, -20) THEN "K"
    ELSE IF Lt(pct_change, -15) THEN "J"
    ELSE IF Lt(pct_change, -10) THEN "I"
    ELSE IF Lt(pct_change, -5) THEN "H"
    ELSE IF Lt(pct_change, -1) THEN "G"
    ELSE "F"

\* post_btc_chart_weekly.py writes each marker as the text its UTF-8 bytes
\* give when read in a single-byte code page: another string, one per marker
Mojibake(m) ==
    CASE m = "A" -> "~A" [] m = "B" -> "~B" [] m = "C" -> "~C"
      [] m = "D" -> "~D" [] m = "E" -> "~E" [] m = "F" -> "~F"
      [] m = "G" -> "~G" [] m = "H" -> "~H" [] m = "I" -> "~I"
      [] m = "J" -> "~J" [] m = "K" -> "~K"

\* the copy of post_btc_chart_weekly.py
get_movement_emoji_weekly(pct_change) ==
    IF Gt(pct_change, 20) THEN Mojibake("A")
    ELSE IF Gt(pct_change, 15) THEN Mojibake("B")
    ELSE IF Gt(pct_change, 10) THEN Mojibake("C")
    ELSE IF Gt(pct_change, 5) THEN Mojibake("D")
    ELSE IF Gt(pct_change, 1) THEN Mojibake("E")
    ELSE IF Lt(pct_change, -20) THEN Mojibake("K")
    ELSE IF Lt(pct_change, -15) THEN Mojibake("J")
    ELSE IF Lt(pct_change, -10) THEN Mojibake("I")
    ELSE IF Lt(pct_change, -5) THEN Mojibake("H")
    ELSE IF Lt(pct_change, -1) THEN Mojibake("G")
    ELSE Mojibake("F")

\* the copy of post_eod_favorites_performance.py
get_movement_emoji_eod(pct_change) ==
    IF Gt(pct_change, 20) THEN "A"
    ELSE IF Gt(pct_change, 15) THEN "B"
    ELSE IF Gt(pct_change, 10) THEN "C"
    ELSE IF Gt(pct_change, 5) THEN "D"
    ELSE IF Gt(pct_change, 1) THEN "E"
    ELSE IF Lt(pct_change, -20) THEN "K"
    ELSE IF Lt(pct_change, -15) THEN "J"
    ELSE IF Lt(pct_change, -10) THEN "I"
    ELSE IF Lt(pct_change, -5) THEN "H"
    ELSE IF Lt(pct_change, -1) THEN "G"
    ELSE "F"

\* the copy of post_eow_cryptostocks_performance.py
get_movement_emoji_eow_cryptostocks(pct_change) ==
    IF Gt(pct_change, 20) THEN "A"
    ELSE IF Gt(pct_change, 15) THEN "B"
    ELSE IF Gt(pct_change, 10) THEN "C"
    ELSE IF Gt(pct_change, 5) THEN "D"
    ELSE IF Gt(pct_change, 1) THEN "E"
    ELSE IF Lt(pct_change, -20) THEN "K"
    ELSE IF Lt(pct_change, -15) THEN "J"
    ELSE IF Lt(pct_change, -10) THEN "I"
    ELSE IF Lt(pct_change, -5) THEN "H"
    ELSE IF Lt(pct_change, -1) THEN "G"
    ELSE "F"

\* the copy of post_eow_favorites_performance.py
get_movement_emoji_eow_favorites(pct_change) ==
    IF Gt(pct_change, 20) THEN "A"
    ELSE IF Gt(pct_change, 15) THEN "B"
    ELSE IF Gt(pct_change, 10) THEN "C"
    ELSE IF Gt(pct_change, 5) THEN "D"
    ELSE IF Gt(pct_change, 1) THEN "E"
    ELSE IF Lt(pct_change, -20) THEN "K"
    ELSE IF Lt(pct_change, -15) THEN "J"
    ELSE IF Lt(pct_change, -10) THEN "I"
    ELSE IF Lt(pct_change, -5) THEN "H"
    ELSE IF Lt(pct_change, -1) THEN "G"
    ELSE "F"

\* the copy of post_eow_mag7_performance.py
get_movement_emoji_eow_mag7_shifted(pct_change) ==
    IF Gt(pct_change, 20) THEN "A"
    ELSE IF Gt(pct_change, 15) THEN "B"
    ELSE IF Gt(pct_change, 10) THEN "C"
    ELSE IF Gt(pct_change, 6) THEN "D"
    ELSE IF Gt(pct_change, 1) THEN "E"
    ELSE IF Lt(pct_change, -20) THEN "K"
    ELSE IF Lt(pct_change, -15) THEN "J"
    ELSE IF Lt(pct_change, -10) THEN "I"
    ELSE IF Lt(pct_change, -5) THEN "H"
    ELSE IF Lt(pct_change, -1) THEN "G"
    ELSE "F"

get_movement_emoji_eow_mag7(pct_change) ==
    IF Gt(pct_change, 20) THEN "A"
    ELSE IF Gt(pct_change, 15) THEN "B"
    ELSE IF Gt(pct_change, 10) THEN "C"
    ELSE IF Gt(pct_change, 5) THEN "D"
    ELSE IF Gt(pct_change, 1) THEN "E"
    ELSE IF Lt(pct_change, -20) THEN "K"
    ELSE IF Lt(pct_change, -15) THEN "J"
    ELSE IF Lt(pct_change, -10) THEN "I"
    ELSE IF Lt(pct_change, -5) THEN "H"
    ELSE IF Lt(pct_change, -1) THEN "G"
    ELSE "F"

(***************************************************************************)
(* Text formatting: f"{x:.2f}" and f"{x:,.2f}" give a sign and an amount   *)
(* in hundredths, rounded half to even; inf and nan print as words         *)
(***************************************************************************)
RoundHalfEven(num, den) ==
    LET q == num \div den
        r == num % den
    IN  IF 2 * r > den \/ (2 * r = den /\ q % 2 = 1) THEN q + 1 ELSE q

Fmt2(p) ==
    IF p.d = 0
    THEN [sign |-> IF p.n < 0 THEN "-" ELSE "",
          hundredths |-> 0,
          special |-> IF p.n = 0 THEN "nan" ELSE "inf"]
    ELSE [sign |-> IF p.n < 0 THEN "-" ELSE "",
          hundredths |-> RoundHalfEven(100 * Abs(p.n), p.d),
          special |-> ""]

(***************************************************************************)
(* Jobs and the state of one run                                           *)
(***************************************************************************)
ChartJobs == {"hourly", "weekly"}
DigestJobs == {"eod", "eow_favorites", "eow_mag7", "eow_cryptostocks"}
Jobs == ChartJobs \cup DigestJobs \cup {"hello"}

NoErr == [kind |-> "", names |-> <<>>]

IdleRun ==
    [pc |-> "idle", reason |-> "", err |-> NoErr,
     fetched |-> None, now |-> None, btc_data |-> <<>>,
     stats |-> None, perf_data |-> None, tweet_text |-> None,
     env |-> None, media |-> None, posted |-> None,
     nFetch |-> 0, nRender |-> 0, nUpload |-> 0, nPublish |-> 0]

NoFile == <<>>

Returned(r) == r.pc \in {"done", "skipped", "failed"}
Ended(r) == Returned(r) \/ r.pc = "crashed"

\* main()'s except clause: the exception is printed and main returns
Caught(r, kind, names) ==
    [r EXCEPT !.pc = "failed", !.err = [kind |-> kind, names |-> names]]
\* an exception raised outside every try block leaves main()
Propagated(r, kind, names) ==
    [r EXCEPT !.pc = "crashed", !.err = [kind |-> kind, names |-> names]]
Skipped(r, why) == [r EXCEPT !.pc = "skipped", !.reason = why]

(***************************************************************************)
(* Classifier run on its own                                               *)
(***************************************************************************)
PctInputs == {Rat(n, ClsDen) : n \in (0 - MaxPct * ClsDen)..(MaxPct * ClsDen)}

InitClassify ==
    /\ runs = [j \in Jobs |-> IdleRun]
    /\ chartFile = NoFile
    /\ pct_change_in \in PctInputs
    /\ marker_out = ""
    /\ markers_out = <<>>
    /\ df_in = None
    /\ perf_out = None

Classify ==
    /\ marker_out = ""
    /\ marker_out' = get_movement_emoji(pct_change_in)
    /\ UNCHANGED <<runs, chartFile, pct_change_in, markers_out, df_in, perf_out>>

NextClassify == Classify

SpecClassify == InitClassify /\ [][NextClassify]_vars

(***************************************************************************)
(* The six copies of the classifier called with the same input, up to      *)
(* MaxCalls times                                                          *)
(***************************************************************************)
ClassifyAll ==
    /\ Len(markers_out) < MaxCalls
    /\ markers_out' = Append(markers_out,
          [hourly |-> get_movement_emoji(pct_change_in),
           weekly |-> get_movement_emoji_weekly(pct_change_in),
           eod |-> get_movement_emoji_eod(pct_change_in),
           eow_cryptostocks |-> get_movement_emoji_eow_cryptostocks(pct_change_in),
           eow_favorites |-> get_movement_emoji_eow_favorites(pct_change_in),
           eow_mag7 |-> get_movement_emoji_eow_mag7(pct_change_in)])
    /\ UNCHANGED <<runs, chartFile, pct_change_in, marker_out, df_in, perf_out>>

NextClassifyAll == ClassifyAll

SpecClassifyAll == InitClassify /\ [][NextClassifyAll]_vars

\* the band table of the specification, as intervals
InBand(p, m) ==
    CASE m = "A" -> Gt(p, 20)
      [] m = "B" -> Gt(p, 15) /\ ~Gt(p, 20)
      [] m = "C" -> Gt(p, 10) /\ ~Gt(p, 15)
      [] m = "D" -> Gt(p, 5) /\ ~Gt(p, 10)
      [] m = "E" -> Gt(p, 1) /\ ~Gt(p, 5)
      [] m = "F" -> ~Lt(p, -1) /\ ~Gt(p, 1)
      [] m = "G" -> ~Lt(p, -5) /\ Lt(p, -1)
      [] m = "H" -> ~Lt(p, -10) /\ Lt(p, -5)
      [] m = "I" -> ~Lt(p, -15) /\ Lt(p, -10)
      [] m = "J" -> ~Lt(p, -20) /\ Lt(p, -15)
      [] m = "K" -> Lt(p, -20)

\* C1: get_movement_emoji returns one of the eleven markers for every
\* input and the marker is the one of the band the input lies in; 1 and -1
\* give F, 20 gives B and -20 gives J.
C1_ClassifyBands ==
    marker_out # "" =>
        /\ marker_out \in Markers
        /\ InBand(pct_change_in, marker_out)
        /\ \A m \in Markers : InBand(pct_change_in, m) => m = marker_out
        /\ (pct_change_in = Rat(1 * ClsDen, ClsDen) => marker_out = "F")
        /\ (pct_change_in = Rat((0 - 1) * ClsDen, ClsDen) => marker_out = "F")
        /\ (pct_change_in = Rat(20 * ClsDen, ClsDen) => marker_out = "B")
        /\ (pct_change_in = Rat((0 - 20) * ClsDen, ClsDen) => marker_out = "J")

C1_Witness ==
    /\ marker_out = "J"
    /\ pct_change_in = Rat((0 - 20) * ClsDen, ClsDen)

(***************************************************************************)
(* Upstream payloads of fetch_btc_data and the conversion of its points    *)
(***************************************************************************)
RawPoints == {<<t * TickMs, p>> : t \in Ticks, p \in Prices}
ShortPayloads == UNION {[1..n -> RawPoints] : n \in 1..MaxLen}
LongPayloads ==
    UNION {{[i \in 1..n |-> <<i * TickMs, f[i]>>] : f \in [1..n -> LongPrices]}
           : n \in (MaxLen + 1)..MaxLongLen}
\* the same long payloads delivered newest first
Reverse(s) == [i \in 1..Len(s) |-> s[Len(s) + 1 - i]]
ReversedLongPayloads == {Reverse(p) : p \in LongPayloads}
\* two scripts are running at the same time
Concurrent == Cardinality({k \in DOMAIN runs : runs[k].pc # "idle"}) > 1
\* the payloads tried when two scripts run at the same time
PairPayloads == {<<<<2 * TickMs, 100>>, <<3 * TickMs, p>>>> : p \in {103, 112}}
Payloads(j) == IF Concurrent THEN PairPayloads
               ELSE IF j = "weekly"
               THEN ShortPayloads \cup LongPayloads \cup ReversedLongPayloads
               ELSE ShortPayloads

\* lines 33-39: each [timestamp_ms, price] becomes (datetime, price); the
\* change of time zone keeps the instant, here in seconds
fetch_btc_data(prices) ==
    [i \in 1..Len(prices) |-> <<prices[i][1] \div 1000, prices[i][2]>>]

\* list.sort(key=lambda x: x[0]): stable, ascending by timestamp
SortInsert(x, s) ==
    LET k == Cardinality({i \in 1..Len(s) : s[i][1] <= x[1]})
    IN  SubSeq(s, 1, k) \o <<x>> \o SubSeq(s, k + 1, Len(s))

RECURSIVE SortByTime(_)
SortByTime(s) ==
    IF s = <<>> THEN <<>>
    ELSE SortInsert(s[Len(s)], SortByTime(SubSeq(s, 1, Len(s) - 1)))

\* btc_data[::k]
Downsample(s, k) ==
    [i \in 1..((Len(s) + k - 1) \div k) |-> s[(i - 1) * k + 1]]

Stats(earliest_price, latest_price, price_diff, pct_change) ==
    [earliest_price |-> earliest_price, latest_price |-> latest_price,
     price_diff |-> price_diff, pct_change |-> pct_change]

(***************************************************************************)
(* post_btc_chart_hourly.main, from the fetched series to the gate         *)
(***************************************************************************)
LookbackSeconds == 3600
Threshold == 10

HourlyEvaluate_inclusive(r, full_day_data, now_et) ==
    LET one_hour_ago == now_et - LookbackSeconds
        btc_data_1h == SelectSeq(full_day_data, LAMBDA x : x[1] >= one_hour_ago)
        r1 == [r EXCEPT !.fetched = Some(full_day_data), !.now = Some(now_et)]
    IN  IF Len(btc_data_1h) < 2
        THEN Skipped([r1 EXCEPT !.btc_data = btc_data_1h], "INSUFFICIENT_DATA")
        ELSE
          LET sorted == SortByTime(btc_data_1h)
              earliest_price == sorted[1][2]
              latest_price == sorted[Len(sorted)][2]
              price_diff == latest_price - earliest_price
              r2 == [r1 EXCEPT !.btc_data = sorted]
          IN  IF earliest_price = 0
              THEN Caught(r2, "ZeroDivisionError", <<>>)
              ELSE
                LET pct_change == PctChange(price_diff, earliest_price)
                    r3 == [r2 EXCEPT !.stats = Some(Stats(earliest_price,
                                       latest_price, price_diff, pct_change))]
                IN  IF AbsLt(pct_change, Threshold)
                    THEN Skipped(r3, "BELOW_THRESHOLD")
                    ELSE [r3 EXCEPT !.pc = "render"]

HourlyEvaluate_noGate(r, full_day_data, now_et) ==
    LET one_hour_ago == now_et - LookbackSeconds
        btc_data_1h == SelectSeq(full_day_data, LAMBDA x : x[1] > one_hour_ago)
        r1 == [r EXCEPT !.fetched = Some(full_day_data), !.now = Some(now_et)]
    IN  IF Len(btc_data_1h) < 2
        THEN Skipped([r1 EXCEPT !.btc_data = btc_data_1h], "INSUFFICIENT_DATA")
        ELSE
          LET sorted == SortByTime(btc_data_1h)
              earliest_price == sorted[1][2]
              latest_price == sorted[Len(sorted)][2]
              price_diff == latest_price - earliest_price
              r2 == [r1 EXCEPT !.btc_data = sorted]
          IN  IF earliest_price = 0
              THEN Caught(r2, "ZeroDivisionError", <<>>)
              ELSE
                LET pct_change == PctChange(price_diff, earliest_price)
                    r3 == [r2 EXCEPT !.stats = Some(Stats(earliest_price,
                                       latest_price, price_diff, pct_change))]
                IN  [r3 EXCEPT !.pc = "render"]

HourlyEvaluate(r, full_day_data, now_et) ==
    LET one_hour_ago == now_et - LookbackSeconds
        btc_data_1h == SelectSeq(full_day_data, LAMBDA x : x[1] > one_hour_ago)
        r1 == [r EXCEPT !.fetched = Some(full_day_data), !.now = Some(now_et)]
    IN  IF Len(btc_data_1h) < 2
        THEN Skipped([r1 EXCEPT !.btc_data = btc_data_1h], "INSUFFICIENT_DATA")
        ELSE
          LET sorted == SortByTime(btc_data_1h)
              earliest_price == sorted[1][2]
              latest_price == sorted[Len(sorted)][2]
              price_diff == latest_price - earliest_price
              r2 == [r1 EXCEPT !.btc_data = sorted]
          IN  IF earliest_price = 0
              THEN Caught(r2, "ZeroDivisionError", <<>>)
              ELSE
                LET pct_change == PctChange(price_diff, earliest_price)
                    r3 == [r2 EXCEPT !.stats = Some(Stats(earliest_price,
                                       latest_price, price_diff, pct_change))]
                IN  IF AbsLt(pct_change, Threshold)
                    THEN Skipped(r3, "BELOW_THRESHOLD")
                    ELSE [r3 EXCEPT !.pc = "render"]

(***************************************************************************)
(* post_btc_chart_weekly.main, from the fetched series to the statistics   *)
(***************************************************************************)
Stride == 5

WeeklyEvaluate(r, full_data) ==
    LET btc_data == Downsample(full_data, Stride)
        latest_price == btc_data[Len(btc_data)][2]
        earliest_price == btc_data[1][2]
        price_diff == latest_price - earliest_price
        pct_change == IF earliest_price # 0
                      THEN PctChange(price_diff, earliest_price)
                      ELSE Rat(0, 1)
    IN  [r EXCEPT !.fetched = Some(full_data), !.btc_data = btc_data,
                  !.stats = Some(Stats(earliest_price, latest_price,
                                       price_diff, pct_change)),
                  !.pc = "render"]

(***************************************************************************)
(* The step of a chart job that fetches: fetch_btc_data, then main up to   *)
(* the call of generate_chart_image                                        *)
(***************************************************************************)
Put(j, r) == runs' = [runs EXCEPT ![j] = r]

FetchBtc(j) ==
    /\ j \in ChartJobs
    /\ runs[j].pc = "start"
    /\ LET r == [runs[j] EXCEPT !.nFetch = @ + 1]
       IN  \/ Put(j, Caught(r, "RequestException", <<>>))
           \/ Put(j, Caught(r, "MissingPrices", <<>>))
           \/ /\ j = "hourly"
              /\ \E prices \in Payloads(j), t \in NowTicks :
                     Put(j, HourlyEvaluate(r, fetch_btc_data(prices),
                                           t * (TickMs \div 1000)))
           \/ /\ j = "weekly"
              /\ \E prices \in Payloads(j) :
                     Put(j, WeeklyEvaluate(r, fetch_btc_data(prices)))
    /\ UNCHANGED <<chartFile, pureVars>>

(***************************************************************************)
(* generate_chart_image and the message of the chart jobs                  *)
(***************************************************************************)
ChartTitle(j) == IF j = "hourly" THEN "BTC Price (Last Hour)"
                 ELSE "BTC Price (Last 7 Days)"

\* the image QuickChart returns for the posted chart configuration
ChartImage(j, btc_data) == [title |-> ChartTitle(j), points |-> btc_data]

\* main(): the f-string of the hourly and of the weekly post; the percent
\* change is printed by {pct_change:,.2f} with nothing put before it
ChartTweetText(j, st) ==
    [job |-> j,
     latest |-> Fmt2(Rat(st.latest_price, 1)),
     marker |-> IF j = "weekly" THEN get_movement_emoji_weekly(st.pct_change)
                ELSE get_movement_emoji(st.pct_change),
     diff |-> Fmt2(Rat(st.price_diff, 1)),
     pct_prefix |-> "",
     pct |-> Fmt2(st.pct_change)]

RenderChart_ignoreFailure(j) ==
    /\ j \in ChartJobs
    /\ runs[j].pc = "render"
    /\ LET r == runs[j]
           r1 == [r EXCEPT !.nRender = @ + 1,
                     !.tweet_text = Some(ChartTweetText(j, r.stats[1])),
                     !.pc = "post"]
       IN  \/ /\ Put(j, [r1 EXCEPT !.err = [kind |-> "RenderError",
                                            names |-> <<>>]])
              /\ UNCHANGED chartFile
           \/ /\ chartFile' = Some(ChartImage(j, r.btc_data))
              /\ Put(j, r1)
    /\ UNCHANGED pureVars

RenderChart(j) ==
    /\ j \in ChartJobs
    /\ runs[j].pc = "render"
    /\ LET r == runs[j]
       IN  IF r.btc_data = <<>>
           THEN /\ Put(j, Caught(r, "ValueError", <<>>))
                /\ UNCHANGED chartFile
           ELSE LET r1 == [r EXCEPT !.nRender = @ + 1]
                IN  \/ /\ Put(j, Caught(r1, "RenderError", <<>>))
                       /\ UNCHANGED chartFile
                    \/ /\ chartFile' = Some(ChartImage(j, r.btc_data))
                       /\ Put(j, [r1 EXCEPT
                              !.tweet_text = Some(ChartTweetText(j, r.stats[1])),
                              !.pc = "post"])
    /\ UNCHANGED pureVars

(***************************************************************************)
(* post_tweet_with_image / post_tweet: the credentials                     *)
(***************************************************************************)
CredNames == <<"API_KEY", "API_KEY_SECRET", "ACCESS_TOKEN", "ACCESS_TOKEN_SECRET">>
CredSet == {CredNames[i] : i \in 1..Len(CredNames)}
\* an environment is the set of the variables that are set and not empty
Envs == SUBSET CredSet

missing_creds(env) == SelectSeq(CredNames, LAMBDA c : c \notin env)

CheckCredentials(j) ==
    /\ j \in ChartJobs \cup DigestJobs
    /\ runs[j].pc = "post"
    /\ \E env \in Envs :
          LET r == [runs[j] EXCEPT !.env = Some(env)]
              missing == missing_creds(env)
          IN  IF missing # <<>>
              THEN Put(j, Caught(r, "MissingCredentials", missing))
              ELSE Put(j, [r EXCEPT !.pc = IF j \in ChartJobs THEN "upload"
                                           ELSE "publish"])
    /\ UNCHANGED <<chartFile, pureVars>>

(***************************************************************************)
(* api_v1.media_upload(filename=image_path)                                *)
(***************************************************************************)
UploadMedia_ignoreFailure(j) ==
    /\ j \in ChartJobs
    /\ runs[j].pc = "upload"
    /\ LET r == [runs[j] EXCEPT !.nUpload = @ + 1]
       IN  \/ Put(j, [r EXCEPT !.err = [kind |-> "PostError", names |-> <<>>],
                               !.pc = "publish"])
           \/ /\ chartFile # NoFile
              /\ Put(j, [r EXCEPT !.media = chartFile, !.pc = "publish"])
    /\ UNCHANGED <<chartFile, pureVars>>

UploadMedia(j) ==
    /\ j \in ChartJobs
    /\ runs[j].pc = "upload"
    /\ LET r == [runs[j] EXCEPT !.nUpload = @ + 1]
       IN  \/ Put(j, Caught(r, "PostError", <<>>))
           \/ /\ chartFile # NoFile
              /\ Put(j, [r EXCEPT !.media = chartFile, !.pc = "publish"])
    /\ UNCHANGED <<chartFile, pureVars>>

(***************************************************************************)
(* client.create_tweet(...) and the lines of main() after it               *)
(***************************************************************************)
CreateTweet_retry(j) ==
    /\ runs[j].pc = "publish"
    /\ runs[j].nPublish < MaxCalls
    /\ LET r == [runs[j] EXCEPT !.nPublish = @ + 1]
       IN  \/ Put(j, [r EXCEPT !.err = [kind |-> "PostError", names |-> <<>>]])
           \/ Put(j, [r EXCEPT !.pc = "done",
                        !.posted = Some([text |-> r.tweet_text[1],
                                         media |-> r.media])])
    /\ UNCHANGED <<chartFile, pureVars>>

CreateTweet(j) ==
    /\ runs[j].pc = "publish"
    /\ runs[j].nPublish < MaxCalls
    /\ LET r == [runs[j] EXCEPT !.nPublish = @ + 1]
       IN  \/ Put(j, Caught(r, "PostError", <<>>))
           \/ Put(j, [r EXCEPT !.pc = "done",
                        !.posted = Some([text |-> r.tweet_text[1],
                                         media |-> r.media])])
    /\ UNCHANGED <<chartFile, pureVars>>

(***************************************************************************)
(* post_hello_world.main up to the call of create_tweet                    *)
(***************************************************************************)
HelloStart ==
    /\ runs["hello"].pc = "start"
    /\ \E env \in Envs :
          LET r == [runs["hello"] EXCEPT !.env = Some(env)]
          IN  IF env # CredSet
              THEN Put("hello", Propagated(r, "MissingCredentials", <<>>))
              ELSE Put("hello", [r EXCEPT !.pc = "publish",
                            !.tweet_text = Some([job |-> "hello"])])
    /\ UNCHANGED <<chartFile, pureVars>>

(***************************************************************************)
(* The digests: TICKERS, fetch_eod_performance / fetch_weekly_performance  *)
(***************************************************************************)
AllTickers(j) ==
    CASE j = "eod" ->
           <<"SPY", "QQQ", "AMZN", "GOOG", "NVDA", "TSLA", "HOOD", "COIN", "HIMS">>
      [] j = "eow_favorites" ->
           <<"SPY", "QQQ", "AMZN", "GOOG", "NVDA", "TSLA", "HOOD", "COIN", "HIMS">>
      [] j = "eow_mag7" ->
           <<"MSFT", "AAPL", "GOOGL", "AMZN", "NVDA", "META", "TSLA">>
      [] j = "eow_cryptostocks" ->
           <<"MSTR", "COIN", "RIOT", "MARA", "BTC-USD", "ETH-USD", "SOL-USD">>

TICKERS(j) == SubSeq(AllTickers(j), 1, NumTickers)
TickerSet(j) == {TICKERS(j)[i] : i \in 1..Len(TICKERS(j))}

\* what the downloaded frame holds for one ticker: no column at all (df[ticker]
\* raises) or the closes of its valid rows, oldest first
CloseRows == UNION {[1..n -> DigestCloses] : n \in 0..MaxRows}
TickerFrames == {[raises |-> TRUE, closes |-> <<>>]}
                \cup {[raises |-> FALSE, closes |-> c] : c \in CloseRows}

\* .tail(2)
Tail2(s) == IF Len(s) <= 2 THEN s ELSE SubSeq(s, Len(s) - 1, Len(s))

\* the body of the loop: does the ticker get an entry, and which
HasEntry(frame) == ~frame.raises /\ Len(Tail2(frame.closes)) >= 2
Entry(frame) ==
    LET sub_df == Tail2(frame.closes)
        close_yesterday == sub_df[1]
        close_today == sub_df[2]
    IN  [close |-> close_today,
         pct_change |-> PctChange(close_today - close_yesterday, close_yesterday)]

fetch_performance_abortOnFailure(tickers, df) ==
    LET bad == {k \in 1..Len(tickers) : ~HasEntry(df[tickers[k]])}
    IN  [t \in {tickers[i] : i \in {k \in 1..Len(tickers) :
                                      \A b \in bad : k < b}}
           |-> Entry(df[t])]

fetch_performance(tickers, df) ==
    [t \in {tickers[i] : i \in {k \in 1..Len(tickers) : HasEntry(df[tickers[k]])}}
       |-> Entry(df[t])]

(***************************************************************************)
(* The digests: the lines of the message                                   *)
(***************************************************************************)
\* the scripts that write f"${ticker}: No Data"; the other two write
\* f"{ticker}: No Data"
NoDataDollar(j) == j \in {"eow_favorites", "eow_mag7"}

DataLine(ticker, info) ==
    [ticker |-> ticker, dollar |-> TRUE, kind |-> "data",
     close |-> Some(Fmt2(Rat(info.close, 1))),
     pct_prefix |-> IF GeZero(info.pct_change) THEN "+" ELSE "",
     pct |-> Some(Fmt2(info.pct_change)),
     marker |-> get_movement_emoji(info.pct_change)]

NoDataLine(j, ticker) ==
    [ticker |-> ticker, dollar |-> NoDataDollar(j), kind |-> "nodata",
     close |-> None, pct_prefix |-> "", pct |-> None, marker |-> ""]

ComposeLines_skipMissing(j, perf_data) ==
    LET present == SelectSeq(TICKERS(j), LAMBDA t : t \in DOMAIN perf_data)
    IN  [i \in 1..Len(present) |-> DataLine(present[i], perf_data[present[i]])]

ComposeLines(j, perf_data) ==
    [i \in 1..Len(TICKERS(j)) |->
        LET ticker == TICKERS(j)[i]
        IN  IF ticker \in DOMAIN perf_data
            THEN DataLine(ticker, perf_data[ticker])
            ELSE NoDataLine(j, ticker)]

DigestTweetText(j, perf_data) ==
    [job |-> j, lines |-> ComposeLines(j, perf_data)]

\* main() of a digest up to the call of post_tweet
DigestStart_abortOnMissing(j) ==
    /\ j \in DigestJobs
    /\ runs[j].pc = "start"
    /\ LET r == [runs[j] EXCEPT !.nFetch = @ + 1]
       IN  \/ Put(j, Propagated(r, "DownloadError", <<>>))
           \/ \E df \in [TickerSet(j) -> TickerFrames] :
                 LET perf_data == fetch_performance(TICKERS(j), df)
                     r1 == [r EXCEPT !.perf_data = Some(perf_data)]
                 IN  IF DOMAIN perf_data # TickerSet(j)
                     THEN Put(j, Skipped(r1, "NO_DATA"))
                     ELSE Put(j, [r1 EXCEPT
                              !.tweet_text = Some(DigestTweetText(j, perf_data)),
                              !.pc = "post"])
    /\ UNCHANGED <<chartFile, pureVars>>

DigestStart(j) ==
    /\ j \in DigestJobs
    /\ runs[j].pc = "start"
    /\ LET r == [runs[j] EXCEPT !.nFetch = @ + 1]
       IN  \/ Put(j, Propagated(r, "DownloadError", <<>>))
           \/ \E df \in [TickerSet(j) -> TickerFrames] :
                 LET perf_data == fetch_performance(TICKERS(j), df)
                     r1 == [r EXCEPT !.perf_data = Some(perf_data)]
                 IN  IF DOMAIN perf_data = {}
                     THEN Put(j, Skipped(r1, "NO_DATA"))
                     ELSE Put(j, [r1 EXCEPT
                              !.tweet_text = Some(DigestTweetText(j, perf_data)),
                              !.pc = "post"])
    /\ UNCHANGED <<chartFile, pureVars>>

(***************************************************************************)
(* One run of one script                                                   *)
(***************************************************************************)
Init ==
    /\ \E j \in Jobs :
          runs = [k \in Jobs |-> IF k = j THEN [IdleRun EXCEPT !.pc = "start"]
                                 ELSE IdleRun]
    /\ chartFile = NoFile
    /\ pct_change_in = Rat(0, 1)
    /\ marker_out = ""
    /\ markers_out = <<>>
    /\ df_in = None
    /\ perf_out = None

Next ==
    \/ \E j \in Jobs : FetchBtc(j)
    \/ \E j \in Jobs : RenderChart(j)
    \/ \E j \in Jobs : CheckCredentials(j)
    \/ \E j \in Jobs : UploadMedia(j)
    \/ \E j \in Jobs : CreateTweet(j)
    \/ \E j \in Jobs : DigestStart(j)
    \/ HelloStart

Spec == Init /\ [][Next]_vars

(***************************************************************************)
(* The hourly and the weekly script started together in one working        *)
(* directory: their steps interleave, "chart.png" is the same file         *)
(***************************************************************************)
InitPair ==
    /\ runs = [k \in Jobs |-> IF k \in ChartJobs
                              THEN [IdleRun EXCEPT !.pc = "start"]
                              ELSE IdleRun]
    /\ chartFile = NoFile
    /\ pct_change_in = Rat(0, 1)
    /\ marker_out = ""
    /\ markers_out = <<>>
    /\ df_in = None
    /\ perf_out = None

NextPair ==
    \/ \E j \in ChartJobs : FetchBtc(j)
    \/ \E j \in ChartJobs : RenderChart(j)
    \/ \E j \in ChartJobs : CheckCredentials(j)
    \/ \E j \in ChartJobs : UploadMedia(j)
    \/ \E j \in ChartJobs : CreateTweet(j)

SpecPair == InitPair /\ [][NextPair]_vars

(***************************************************************************)
(* fetch_eod_performance / fetch_weekly_performance run on their own, on   *)
(* every downloaded frame for the TICKERS of every digest                  *)
(***************************************************************************)
TickerLists == {TICKERS(j) : j \in DigestJobs}

InitFetchPerformance ==
    /\ runs = [k \in Jobs |-> IdleRun]
    /\ chartFile = NoFile
    /\ pct_change_in = Rat(0, 1)
    /\ marker_out = ""
    /\ markers_out = <<>>
    /\ \E tickers \in TickerLists :
          \E df \in [{tickers[i] : i \in 1..Len(tickers)} -> TickerFrames] :
             df_in = Some([tickers |-> tickers, df |-> df])
    /\ perf_out = None

FetchPerformance ==
    /\ df_in # None
    /\ perf_out = None
    /\ perf_out' = Some(fetch_performance(df_in[1].tickers, df_in[1].df))
    /\ UNCHANGED <<runs, chartFile, pct_change_in, marker_out, markers_out,
                   df_in>>

NextFetchPerformance == FetchPerformance

SpecFetchPerformance == InitFetchPerformance /\ [][NextFetchPerformance]_vars

(***************************************************************************)
(* Properties                                                              *)
(***************************************************************************)
First(s) == s[1]
Last(s) == s[Len(s)]
NoPublisherCall(r) == r.nUpload = 0 /\ r.nPublish = 0

\* the change between the first and the last sample of a series, start # 0
SeriesPct(s) == PctChange(Last(s)[2] - First(s)[2], First(s)[2])

\* C2: in the hourly alert, a window of at least two samples whose change
\* is below 10% in magnitude ends the run SKIPPED / BELOW_THRESHOLD with no
\* chart rendered, no message composed and no upload or create_tweet call.
C2_BelowThresholdSkips ==
    LET r == runs["hourly"]
    IN  (/\ r.fetched # None
         /\ Len(r.btc_data) >= 2
         /\ First(r.btc_data)[2] # 0
         /\ AbsLt(SeriesPct(r.btc_data), 10))
        => /\ r.pc = "skipped"
           /\ r.reason = "BELOW_THRESHOLD"
           /\ r.nRender = 0
           /\ chartFile = NoFile
           /\ r.tweet_text = None
           /\ NoPublisherCall(r)

\* the window 100 -> 103 (3%) was evaluated and skipped
C2_Witness ==
    LET r == runs["hourly"]
    IN  /\ r.pc = "skipped"
        /\ r.reason = "BELOW_THRESHOLD"
        /\ Len(r.btc_data) = 2
        /\ First(r.btc_data)[2] = 100
        /\ Last(r.btc_data)[2] = 103

\* C3: every hourly run that makes a publish attempt has a percent change
\* strictly greater than 10 in magnitude.
C3_PublishOnlyAboveCutoff ==
    LET r == runs["hourly"]
    IN  r.nPublish > 0 => AbsGt(r.stats[1].pct_change, 10)

\* C4: in the hourly and the weekly variant, a series of fewer than 2
\* samples ends the run SKIPPED / INSUFFICIENT_DATA, with no percentage
\* computed and no render, upload or create_tweet call.
C4_TooFewSamplesSkips ==
    \A j \in ChartJobs :
        LET r == runs[j]
        IN  (r.fetched # None /\ Len(r.btc_data) < 2)
            => /\ r.pc = "skipped"
               /\ r.reason = "INSUFFICIENT_DATA"
               /\ r.stats = None
               /\ r.nRender = 0
               /\ NoPublisherCall(r)

\* C5: in every variant a start price of 0 ends the run FAILED with a
\* division-by-zero error, no percentage set and no create_tweet call.
C5_ZeroStartFails ==
    /\ \A j \in ChartJobs :
          LET r == runs[j]
          IN  (/\ r.fetched # None
               /\ Len(r.btc_data) >= (IF j = "hourly" THEN 2 ELSE 1)
               /\ First(r.btc_data)[2] = 0)
              => /\ r.pc = "failed"
                 /\ r.err.kind = "ZeroDivisionError"
                 /\ r.stats = None
                 /\ r.nPublish = 0
    /\ \A j \in DigestJobs :
          LET r == runs[j]
          IN  (/\ r.perf_data # None
               /\ \E t \in DOMAIN r.perf_data[1] :
                      r.perf_data[1][t].pct_change.d = 0)
              => /\ r.pc = "failed"
                 /\ r.err.kind = "ZeroDivisionError"
                 /\ r.nPublish = 0

\* C6: in the weekly variant the downsampled series keeps the first and the
\* last fetched sample, and the start price, end price, difference and
\* percent change reported are those of the first and last fetched samples.
C6_DownsampleKeepsEnds ==
    LET r == runs["weekly"]
    IN  (r.fetched # None /\ r.stats # None)
        => LET full == r.fetched[1]
               st == r.stats[1]
           IN  /\ First(r.btc_data) = First(full)
               /\ Last(r.btc_data) = Last(full)
               /\ st.earliest_price = First(full)[2]
               /\ st.latest_price = Last(full)[2]
               /\ st.price_diff = Last(full)[2] - First(full)[2]
               /\ (First(full)[2] # 0 => st.pct_change = SeriesPct(full))

\* C7: in every script a run makes at most one call of each external
\* operation (fetch, render, media upload, create_tweet), and a call that
\* failed has ended the run: nothing is tried again.
C7_AtMostOnePublish ==
    \A j \in Jobs :
        LET r == runs[j]
        IN  /\ r.nFetch <= 1
            /\ r.nRender <= 1
            /\ r.nUpload <= 1
            /\ r.nPublish <= 1
            /\ (r.err.kind # "" => Ended(r))

\* a create_tweet call failed and the run is over after that one call
C7_Witness ==
    \E j \in Jobs :
        /\ runs[j].nPublish = 1
        /\ runs[j].err.kind = "PostError"
        /\ runs[j].pc = "failed"

\* C8: in every script every failure is caught inside main(): main()
\* returns and no exception leaves it.
C8_FailuresAreCaught ==
    \A j \in Jobs : runs[j].err.kind # "" => runs[j].pc = "failed"

\* C9: in every script that publishes, when a credential is absent the
\* error names exactly the absent credentials and no upload or create_tweet
\* call is made.
C9_MissingCredentialsNamed ==
    \A j \in Jobs :
        LET r == runs[j]
        IN  (r.env # None /\ r.env[1] # CredSet)
            => /\ r.err.kind = "MissingCredentials"
               /\ {r.err.names[i] : i \in 1..Len(r.err.names)} = CredSet \ r.env[1]
               /\ Len(r.err.names) = Cardinality(CredSet \ r.env[1])
               /\ NoPublisherCall(r)

\* the shape of a digest message against TICKERS and the fetched mapping;
\* dollar(j) tells whether the No Data line of script j starts with "$"
LinesFollowTickers(j, r, dollar(_)) ==
    LET lines == r.tweet_text[1].lines
        perf == r.perf_data[1]
    IN  /\ Len(lines) = Len(TICKERS(j))
        /\ \A i \in 1..Len(lines) :
              LET t == TICKERS(j)[i]
              IN  /\ lines[i].ticker = t
                  /\ (t \in DOMAIN perf =>
                        /\ lines[i].kind = "data"
                        /\ lines[i].close = Some(Fmt2(Rat(perf[t].close, 1)))
                        /\ lines[i].pct = Some(Fmt2(perf[t].pct_change))
                        /\ lines[i].marker \in Markers)
                  /\ (t \notin DOMAIN perf =>
                        /\ lines[i].kind = "nodata"
                        /\ lines[i].dollar = dollar(j))

NoDollar(j) == FALSE
DollarInFavoritesAndMag7(j) == j \in {"eow_favorites", "eow_mag7"}

\* C10 as stated: in every digest the message has one line per ticker of
\* TICKERS, in that order, a data line for a ticker with a computed change
\* and the line "<symbol>: No Data" for a ticker without data.
C10_OneLinePerTicker_Original ==
    \A j \in DigestJobs :
        runs[j].tweet_text # None => LinesFollowTickers(j, runs[j], NoDollar)

\* C10 as amended: the same, the line of a ticker without data being
\* "<symbol>: No Data" in the end-of-day and the cryptostocks digest and
\* "$<symbol>: No Data" in the weekly favorites and the mag7 digest.
C10_OneLinePerTicker ==
    \A j \in DigestJobs :
        runs[j].tweet_text # None
            => LinesFollowTickers(j, runs[j], DollarInFavoritesAndMag7)

\* a composed digest in which the second ticker has no data and the first has
C10_Witness ==
    \E j \in DigestJobs :
        /\ runs[j].tweet_text # None
        /\ LET lines == runs[j].tweet_text[1].lines
           IN  /\ Len(lines) = Len(TICKERS(j))
               /\ lines[1].kind = "data"
               /\ lines[2].kind = "nodata"
               /\ lines[2].ticker = TICKERS(j)[2]

C12_PublishAfterFetchAndRender ==
    \A j \in ChartJobs :
        LET r == runs[j]
        IN  /\ (r.nUpload > 0 \/ r.nPublish > 0)
                 => /\ r.fetched # None
                    /\ r.nFetch = 1
                    /\ r.nRender = 1
                    /\ chartFile = Some(ChartImage(j, r.btc_data))
                    /\ r.err.kind \notin {"RequestException", "MissingPrices",
                                          "RenderError"}
            /\ r.err.kind \in {"RequestException", "MissingPrices", "RenderError"}
                 => /\ r.pc = "failed"
                    /\ NoPublisherCall(r)

\* the renderer failed and the run ended without a publisher call
C12_Witness ==
    \E j \in ChartJobs :
        /\ runs[j].err.kind = "RenderError"
        /\ runs[j].nRender = 1
        /\ runs[j].pc = "failed"
        /\ NoPublisherCall(runs[j])

\* the percent change p is printed with an explicit sign: "+" put before a
\* positive or zero value, "-" before a negative one
PrintedSigned(prefix, printed, p) ==
    IF p.n >= 0 THEN prefix = "+" /\ printed.sign = ""
    ELSE printed.sign = "-"

\* C13: in every composed message the percent change carries an explicit
\* sign, in the hourly and weekly posts and in every data line of a digest.
C13_PercentAlwaysSigned ==
    /\ \A j \in ChartJobs :
          LET r == runs[j]
          IN  r.tweet_text # None
                => PrintedSigned(r.tweet_text[1].pct_prefix, r.tweet_text[1].pct,
                                 r.stats[1].pct_change)
    /\ \A j \in DigestJobs :
          LET r == runs[j]
          IN  r.tweet_text # None
                => \A i \in 1..Len(r.tweet_text[1].lines) :
                      LET line == r.tweet_text[1].lines[i]
                          t == line.ticker
                      IN  (line.kind = "data"
                           /\ ~IsNaN(r.perf_data[1][t].pct_change))
                          => PrintedSigned(line.pct_prefix, line.pct[1],
                                           r.perf_data[1][t].pct_change)

\* a is b with some elements left out, the others in their order
RECURSIVE IsSubseq(_, _)
IsSubseq(a, b) ==
    IF a = <<>> THEN TRUE
    ELSE IF b = <<>> THEN FALSE
    ELSE IF a[1] = b[1] THEN IsSubseq(Tail(a), Tail(b))
    ELSE IsSubseq(a, Tail(b))

Ascending(s) == \A i \in 1..(Len(s) - 1) : s[i][1] <= s[i + 1][1]

\* C14: for a fetched series sorted ascending and the reference instant now,
\* the hourly window holds exactly the samples with timestamp > now - 1 hour
\* (a sample at exactly now - 1 hour is left out), as an order-preserving
\* subsequence of the series, ascending by timestamp.
C14_WindowSelection ==
    LET r == runs["hourly"]
    IN  (r.fetched # None /\ r.now # None /\ Ascending(r.fetched[1])) =>
          LET S == r.fetched[1]
              cut == r.now[1] - LookbackSeconds
          IN  /\ \A i \in 1..Len(r.btc_data) : r.btc_data[i][1] > cut
              /\ Len(r.btc_data) = Cardinality({i \in 1..Len(S) : S[i][1] > cut})
              /\ IsSubseq(r.btc_data, S)
              /\ Ascending(r.btc_data)

\* a sorted series with a sample exactly one hour before the reference
\* instant, left out of a window that kept a later sample
C14_Witness ==
    LET r == runs["hourly"]
    IN  /\ r.fetched # None /\ r.now # None
        /\ Ascending(r.fetched[1])
        /\ \E i \in 1..Len(r.fetched[1]) :
              r.fetched[1][i][1] = r.now[1] - LookbackSeconds
        /\ Len(r.btc_data) > 0
        /\ Len(r.btc_data) < Len(r.fetched[1])

\* the prices of the samples of window w with the least and the greatest
\* timestamp
ChronoFirstPrice(w) ==
    (CHOOSE x \in {w[i] : i \in 1..Len(w)} :
        \A i \in 1..Len(w) : x[1] <= w[i][1])[2]
ChronoLastPrice(w) ==
    (CHOOSE x \in {w[i] : i \in 1..Len(w)} :
        \A i \in 1..Len(w) : x[1] >= w[i][1])[2]

DistinctTimes(w) == \A i, k \in 1..Len(w) : i # k => w[i][1] # w[k][1]

\* C15: in the hourly and in the weekly variant the start and the end price
\* of the change computation are the prices of the chronologically first and
\* last sample of the window used, in whatever order the source delivered
\* the samples.
C15_ChronologicalEnds ==
    \A j \in ChartJobs :
        LET r == runs[j]
        IN  (r.stats # None /\ DistinctTimes(r.btc_data)) =>
              /\ r.stats[1].earliest_price = ChronoFirstPrice(r.btc_data)
              /\ r.stats[1].latest_price = ChronoLastPrice(r.btc_data)
              /\ r.stats[1].price_diff =
                   ChronoLastPrice(r.btc_data) - ChronoFirstPrice(r.btc_data)

\* C16: under every interleaving of the steps of two different jobs, the
\* image a run attaches to its post is the chart this run rendered from its
\* own series.
C16_RunAttachesOwnChart ==
    \A j \in ChartJobs :
        runs[j].media # None
          => runs[j].media = Some(ChartImage(j, runs[j].btc_data))

\* the frame gives no two valid rows for the ticker, or reading it raises
LacksData(frame) == frame.raises \/ Len(frame.closes) < 2

Without(tickers, t) == SelectSeq(tickers, LAMBDA x : x # t)

\* C17: in the batch fetch of a digest a ticker whose frame raises or has
\* fewer than two valid rows gets no entry, every other ticker gets the entry
\* computed from its own last two closes, and the mapping returned is the
\* one returned for the same frame without the failing ticker.
C17_PerSymbolFailureIsolated ==
    perf_out # None =>
      LET tickers == df_in[1].tickers
          df == df_in[1].df
          performance == perf_out[1]
      IN  /\ DOMAIN performance \subseteq DOMAIN df
          /\ \A t \in DOMAIN df :
                IF LacksData(df[t])
                THEN /\ t \notin DOMAIN performance
                     /\ performance =
                          fetch_performance(Without(tickers, t),
                              [u \in DOMAIN df \ {t} |-> df[u]])
                ELSE LET n == Len(df[t].closes)
                         close_today == df[t].closes[n]
                         close_yesterday == df[t].closes[n - 1]
                     IN  /\ t \in DOMAIN performance
                         /\ performance[t].close = close_today
                         /\ performance[t].pct_change =
                              PctChange(close_today - close_yesterday,
                                        close_yesterday)

\* the first ticker's column raises, a later ticker has its entry
C17_Witness ==
    /\ perf_out # None
    /\ df_in[1].df[df_in[1].tickers[1]].raises
    /\ \E i \in 2..Len(df_in[1].tickers) :
          df_in[1].tickers[i] \in DOMAIN perf_out[1]

\* C18: the series returned by fetch_btc_data has strictly increasing
\* timestamps, whatever the order and the repetitions of the payload.
C18_FetchedSortedAndUnique ==
    \A j \in ChartJobs :
        runs[j].fetched # None
          => \A i \in 1..(Len(runs[j].fetched[1]) - 1) :
                runs[j].fetched[1][i][1] < runs[j].fetched[1][i + 1][1]

\* C19: in post_tweet_with_image create_tweet is called only after the one
\* media upload succeeded, and with the media that upload returned; a run is
\* DONE only after a successful create_tweet call; a failed upload or a
\* failed create_tweet ends the run FAILED.
C19_UploadBeforePublish ==
    \A j \in ChartJobs :
        LET r == runs[j]
        IN  /\ r.nPublish > 0 =>
                  /\ r.nUpload = 1
                  /\ r.media # None
                  /\ r.pc \in {"done", "failed"}
            /\ r.posted # None =>
                  /\ r.posted[1].media = r.media
                  /\ r.posted[1].text = r.tweet_text[1]
            /\ r.pc = "done" =>
                  /\ r.posted # None
                  /\ r.nPublish = 1
                  /\ r.err = NoErr
            /\ r.err.kind = "PostError" =>
                  /\ r.pc = "failed"
                  /\ r.posted = None
            /\ (r.nUpload > 0 /\ r.media = None) =>
                  /\ r.pc = "failed"
                  /\ r.nPublish = 0

\* a chart run is done: its post carries the uploaded media
C19_Witness ==
    \E j \in ChartJobs :
        /\ runs[j].pc = "done"
        /\ runs[j].nUpload = 1
        /\ runs[j].nPublish = 1
        /\ runs[j].posted # None
        /\ runs[j].posted[1].media = runs[j].media

\* the band a returned marker stands for
BandOfMarker(text) == CHOOSE m \in Markers : text = m \/ text = Mojibake(m)

\* C20: for every percent change the six copies of get_movement_emoji take
\* the branch of the same band, the band the value lies in, and a second
\* call with the same input returns the same markers.
C20_SixCopiesAgree ==
    \A i \in 1..Len(markers_out) :
        LET out == markers_out[i]
        IN  /\ \A k \in DOMAIN out :
                  /\ \E m \in Markers : out[k] = m \/ out[k] = Mojibake(m)
                  /\ BandOfMarker(out[k]) = BandOfMarker(out.hourly)
                  /\ InBand(pct_change_in, BandOfMarker(out[k]))
            /\ out = markers_out[1]

\* the six copies were called twice with a value of a band other than flat
C20_Witness ==
    /\ Len(markers_out) = 2
    /\ DOMAIN markers_out[2] = ChartJobs \cup DigestJobs
    /\ BandOfMarker(markers_out[2].eow_mag7) # "F"
    /\ markers_out[2].weekly # markers_out[2].hourly

UpMarkers == {"A", "B", "C", "D"}
DownMarkers == {"H", "I", "J", "K"}

\* C21: in an hourly run that composed its message the marker is none of
\* E, F, G; it is D only for a change of exactly +10 and H only for exactly
\* -10; an up marker goes with a positive change, a down marker with a
\* negative one.
C21_HourlyMarkerIsLargeMove ==
    LET r == runs["hourly"]
    IN  r.tweet_text # None =>
          LET m == r.tweet_text[1].marker
              p == r.stats[1].pct_change
          IN  /\ m \in UpMarkers \cup DownMarkers
              /\ m = "D" => (~Gt(p, 10) /\ ~Lt(p, 10))
              /\ m = "H" => (~Gt(p, -10) /\ ~Lt(p, -10))
              /\ m \in UpMarkers => Gt(p, 0)
              /\ m \in DownMarkers => Lt(p, 0)
              /\ ~IsNaN(p)

\* an hourly message was composed for a change of exactly +10 percent, and
\* its marker is D
C21_Witness ==
    LET r == runs["hourly"]
    IN  /\ r.tweet_text # None
        /\ r.tweet_text[1].marker = "D"
        /\ r.stats[1].earliest_price = 100
        /\ r.stats[1].latest_price = 110

====
